---- MODULE Spec2Model ----
(***************************************************************************)
(* MediaCleaner: the review state machine of App (processAction,           *)
(* executePendingDelete, handleUndo), the session set-up                   *)
(* (handleSelectDest, handleSelectSource, handleScanComplete) and the      *)
(* storage helpers deleteFile and copyFileToDirectory, and the progress    *)
(* file (handleSaveProgress, handleLoadProgress, the resume screen).       *)
(*                                                                         *)
(* A handler runs to completion as one step: the callers await one         *)
(* decide/undo before issuing the next.  Files are identified by their     *)
(* path (unique within a scan), here a number of Files.  The index into    *)
(* the queue is 0-based as in the source; TLA+ sequences are 1-based, so   *)
(* the current file is fileQueue[currentIndex + 1].                        *)
(***************************************************************************)
EXTENDS Integers, Sequences, FiniteSets, TLC

\* ---------------------------------------------------------------- bounds
MaxFiles == 3
MaxSize == 2
MaxCount == 3
MaxNodes == 4
MaxPad == 2
MaxCalls == 2

Files == 1..MaxFiles
Sizes == 1..MaxSize
None == 0

KEEP == "KEEP"
DELETE == "DELETE"
SwipeAction == {KEEP, DELETE}

\* names of folders: of the picked source, and recorded in a progress file
FolderNames == {"A", "B"}
DefaultFolder == "A"
NoName == ""             \* null, or a folderName the progress file does not carry
UnknownFolder == "Unknown Folder"

\* an element of processedPaths that is not a string (a number in the JSON array)
NonString == -1

\* what one call of copyFileToDirectory meets in the environment
CopyInputs == {"openFail", "streamOk", "unsupportedBufOk", "unsupportedBufFail",
               "streamFailBufOk", "streamFailBufFail"}

VARIABLES
  \* ---- React state of App
  appState, destHandle, fileQueue, currentIndex, pendingDelete, historyStack,
  bytesDeleted, filesDeleted, filesKept, errorMsg,
  ignoredPaths, resumeMode, resumeFolderName, originalTotalBytes,
  sourceName,       \* sourceHandle.name, NoName while sourceHandle is null
  \* ---- the filesystem behind the handles
  storage,          \* source files that exist
  dest,             \* destination directory: per file name "absent" | "empty" | "full"
  size,             \* size of each file
  removeSupported,  \* whether file handles offer remove()
  pickerSupported,  \* whether window.showDirectoryPicker exists
  sourceMode,       \* the permission mode asked for on the source folder so far
  exported,         \* the progress file handleSaveProgress downloaded last
  \* ---- history variables (observers, never read by the handlers)
  lastOp,           \* the last handler that ran, with its inputs and outcomes
  pre,              \* App state and storage as they were before the last processAction
  markState,        \* per file: what became of its latest DELETE mark
  decideRun,        \* processAction calls in this session so far, -1 once undo was used
  \* ---- scanDirectory
  tree,             \* the folder being scanned and the arguments of the call
  scan,             \* the locals of the running scanDirectory call, its output so far
  \* ---- processAction calls suspended at an await
  calls

appVars == <<appState, destHandle, fileQueue, currentIndex, pendingDelete, historyStack,
             bytesDeleted, filesDeleted, filesKept, errorMsg>>
fsVars == <<storage, dest>>
envVars == <<size, removeSupported, pickerSupported>>
histVars == <<lastOp, pre, markState, decideRun>>
resumeVars == <<ignoredPaths, resumeMode, resumeFolderName>>
sessVars == <<resumeVars, sourceName, exported, originalTotalBytes, sourceMode>>
scanVars == <<tree, scan>>
vars == <<appVars, fsVars, envVars, histVars, sessVars, scanVars, calls>>

\* ------------------------------------------------------------ helpers
currentFile == IF currentIndex + 1 <= Len(fileQueue) THEN fileQueue[currentIndex + 1] ELSE None

isLast == currentIndex + 1 >= Len(fileQueue)

Snapshot == [cursor |-> currentIndex, pending |-> pendingDelete, storage |-> storage,
             file |-> currentFile]

NoSnapshot == [cursor |-> 0, pending |-> None, storage |-> {}, file |-> None]

Op(name, action, flush, res) == [op |-> name, action |-> action, flush |-> flush, res |-> res]

\* deleteFile(handle): "removed" | "noop" (no remove capability, returns normally) |
\* "throw" (remove() rejects: locked, or the file is gone)
deleteFile(f, st, fails) ==
  IF ~removeSupported THEN "noop"
  ELSE IF fails \/ f \notin st THEN "throw"
  ELSE "removed"

\* mutation of copyFileToDirectory: a failing stream is not followed by the
\* buffered write
copyFileToDirectory_noFallback(f, st, d, in) ==
  LET created == IF d[f] = "absent" THEN [d EXCEPT ![f] = "empty"] ELSE d
      written == [d EXCEPT ![f] = "full"]
  IN  IF in = "openFail" \/ f \notin st THEN [res |-> "throw", dest |-> d, buffered |-> FALSE]
      ELSE IF in = "streamOk" THEN [res |-> "ok", dest |-> written, buffered |-> FALSE]
      ELSE IF in = "unsupportedBufOk" THEN [res |-> "ok", dest |-> written, buffered |-> TRUE]
      ELSE IF in = "unsupportedBufFail" THEN [res |-> "throw", dest |-> created, buffered |-> TRUE]
      ELSE [res |-> "throw", dest |-> created, buffered |-> FALSE]

\* copyFileToDirectory(handle, destDir): result, the destination entry afterwards
\* and whether the whole-buffer write was attempted
copyFileToDirectory(f, st, d, in) ==
  LET created == IF d[f] = "absent" THEN [d EXCEPT ![f] = "empty"] ELSE d
      written == [d EXCEPT ![f] = "full"]
  IN  IF in = "openFail" \/ f \notin st THEN [res |-> "throw", dest |-> d, buffered |-> FALSE]
      ELSE IF in = "streamOk" THEN [res |-> "ok", dest |-> written, buffered |-> FALSE]
      ELSE IF in \in {"unsupportedBufOk", "streamFailBufOk"}
      THEN [res |-> "ok", dest |-> written, buffered |-> TRUE]
      ELSE [res |-> "throw", dest |-> created, buffered |-> TRUE]

\* mutation of InsertBySize: x goes in front of the entries of its own size
RECURSIVE InsertBySize_beforeEqual(_, _, _)
InsertBySize_beforeEqual(x, s, sz) ==
  IF s = <<>> THEN <<x>>
  ELSE IF sz[Head(s)] > sz[x] THEN <<Head(s)>> \o InsertBySize_beforeEqual(x, Tail(s), sz)
  ELSE <<x>> \o s

\* stable insertion of x into a sequence sorted by size descending
RECURSIVE InsertBySize(_, _, _)
InsertBySize(x, s, sz) ==
  IF s = <<>> THEN <<x>>
  ELSE IF sz[Head(s)] >= sz[x] THEN <<Head(s)>> \o InsertBySize(x, Tail(s), sz)
  ELSE <<x>> \o s

\* queue.sort((a, b) => b.size - a.size): stable, heaviest first
RECURSIVE SortBySizeDesc(_, _)
SortBySizeDesc(s, sz) ==
  IF s = <<>> THEN <<>>
  ELSE InsertBySize(s[Len(s)], SortBySizeDesc(SubSeq(s, 1, Len(s) - 1), sz), sz)

\* sorted.reduce((acc, curr) => acc + curr.size, 0)
RECURSIVE SumSizes(_, _)
SumSizes(s, sz) == IF s = <<>> THEN 0 ELSE sz[Head(s)] + SumSizes(Tail(s), sz)

\* the files of a set in ascending order: a scan's discovery order
RECURSIVE SeqOfSet(_)
SeqOfSet(S) ==
  IF S = {} THEN <<>>
  ELSE LET m == CHOOSE x \in S : \A y \in S : x <= y
       IN  <<m>> \o SeqOfSet(S \ {m})

Range(s) == {s[i] : i \in DOMAIN s}

\* a progress file as its JSON text parses: kind "snapshot" carries processedPaths
\* as an array (of whatever elements), "noField" has processedPaths missing or
\* falsy, "notArray" has a truthy processedPaths that is no array, "notJson" does
\* not parse, "noFile" is the cancelled file dialog
ProgressFile(kind, folderName, paths) ==
  [kind |-> kind, folderName |-> folderName, processedCount |-> Len(paths),
   processedPaths |-> paths]

NoFile == ProgressFile("noFile", NoName, <<>>)

\* mutation of exportSnapshot: slice(0, currentIndex + 1), the current item included
exportSnapshot_throughCurrent ==
  LET processedInSession == SubSeq(fileQueue, 1, currentIndex + 1)
      allProcessed == SeqOfSet(ignoredPaths) \o processedInSession
  IN  ProgressFile("snapshot", sourceName, allProcessed)

\* the data handleSaveProgress serialises: Array.from(ignoredPaths) followed by
\* the paths of fileQueue.slice(0, currentIndex)
exportSnapshot ==
  LET processedInSession == SubSeq(fileQueue, 1, currentIndex)
      allProcessed == SeqOfSet(ignoredPaths) \o processedInSession
  IN  ProgressFile("snapshot", sourceName, allProcessed)

\* mutation of loadResult: Array.isArray is not asked
loadResult_noArrayCheck(payload) ==
  IF payload.kind \in {"notJson", "noField"}
  THEN [ok |-> FALSE, ignoredPaths |-> {}, folderName |-> NoName]
  ELSE [ok |-> TRUE, ignoredPaths |-> Range(payload.processedPaths),
        folderName |-> IF payload.folderName = NoName THEN UnknownFolder
                       ELSE payload.folderName]

\* the try block of handleLoadProgress: JSON.parse, the format test, and what the
\* three setters receive (new Set(processedPaths), folderName || "Unknown Folder")
loadResult(payload) ==
  IF payload.kind \in {"notJson", "noField", "notArray"}
  THEN [ok |-> FALSE, ignoredPaths |-> {}, folderName |-> NoName]
  ELSE [ok |-> TRUE, ignoredPaths |-> Range(payload.processedPaths),
        folderName |-> IF payload.folderName = NoName THEN UnknownFolder
                       ELSE payload.folderName]

\* mutation of FilterIgnored: the set is consulted only when it holds several paths
FilterIgnored_sizeAboveOne(files, ignored) ==
  IF Cardinality(ignored) > 1 THEN SelectSeq(files, LAMBDA f : f \notin ignored) ELSE files

\* handleScanComplete: if (ignoredPaths.size > 0) queue = files.filter(f =>
\* !ignoredPaths.has(f.path))
FilterIgnored(files, ignored) ==
  IF Cardinality(ignored) > 0 THEN SelectSeq(files, LAMBDA f : f \notin ignored) ELSE files

\* mutation of mismatch: the recorded name is never compared
mismatch_never(name) == FALSE

\* "Warning if resuming wrong folder": the condition under which window.confirm is asked
mismatch(name) == resumeMode /\ resumeFolderName # NoName /\ name # resumeFolderName

\* ------------------------------------------------------------------ Init
\* A freshly constructed App over a folder whose media files all exist.  Files are
\* numbered heaviest first (a numbering, not a restriction: the handlers treat
\* paths as opaque), so the sorted queue lists the scanned files in ascending number.
InitApp ==
  /\ appState = "IDLE"
  /\ destHandle = FALSE
  /\ fileQueue = <<>>
  /\ currentIndex = 0
  /\ pendingDelete = None
  /\ historyStack = <<>>
  /\ bytesDeleted = 0
  /\ filesDeleted = 0
  /\ filesKept = 0
  /\ errorMsg = "none"
  /\ ignoredPaths = {}
  /\ resumeMode = FALSE
  /\ resumeFolderName = NoName
  /\ originalTotalBytes = 0
  /\ sourceName = NoName
  /\ exported = NoFile
  /\ sourceMode = "none"
  /\ storage = Files
  /\ dest = [f \in Files |-> "absent"]
  /\ lastOp = Op("init", "none", "none", "none")
  /\ pre = NoSnapshot
  /\ markState = [f \in Files |-> "none"]
  /\ decideRun = 0

\* ---- directory trees.  Node 1 is the root; a node's parent has a smaller
\* number and a directory lists its entries in ascending number, after pad
\* video files of its own (the negative numbers).  kind is "dir" or what the
\* file's MIME type starts with; fail is the one entry that fails to open (0: none)
Nodes == 1..MaxNodes
Root == 1
Kinds == {"dir", "image", "other"}
ProgressEvery == 5

Trees ==
  {[parent |-> p, kind |-> k, fail |-> x, pad |-> d, recursive |-> r] :
     p \in {q \in [Nodes -> 0..(MaxNodes - 1)] : q[Root] = 0 /\ \A n \in Nodes \ {Root} : q[n] >= 1 /\ q[n] < n},
     k \in {l \in [Nodes -> Kinds] : l[Root] = "dir"},
     x \in 0..MaxNodes, d \in {0, MaxPad}, r \in BOOLEAN}

WellFormedTree(t) == \A n \in Nodes \ {Root} : t.kind[t.parent[n]] = "dir"

NoTree == [parent |-> [n \in Nodes |-> IF n = Root THEN 0 ELSE Root],
           kind |-> [n \in Nodes |-> IF n = Root THEN "dir" ELSE "other"],
           fail |-> 0, pad |-> 0, recursive |-> TRUE]

NoScan == [pc |-> "idle", stack |-> <<>>, dir |-> 0, todo |-> <<>>, subDirs |-> <<>>,
           files |-> <<>>, progress |-> <<>>, aborted |-> FALSE,
           pushed |-> <<>>, visited |-> <<>>]

PadFile(d, i) == 0 - ((d - 1) * MaxPad + i)
KindOf(t, e) == IF e < 0 THEN "video" ELSE t.kind[e]
ParentOf(t, e) == IF e < 0 THEN ((0 - e) - 1) \div MaxPad + 1 ELSE t.parent[e]

\* handle.values() of directory d: the order in which its entries are discovered
Children(t, d) ==
  [i \in 1..t.pad |-> PadFile(d, i)] \o SeqOfSet({n \in Nodes \ {Root} : t.parent[n] = d})

Reverse(s) == [i \in 1..Len(s) |-> s[Len(s) + 1 - i]]

\* mutation of mediaType: only images are recognised
mediaType_imagesOnly(kind) == IF kind = "image" THEN "image" ELSE "unknown"

\* "Simple type check based on MIME"
mediaType(kind) ==
  IF kind = "image" THEN "image" ELSE IF kind = "video" THEN "video" ELSE "unknown"

\* mutation of progressAfterPush: the UI is notified every tenth file only
progressAfterPush_everyTenth(files, progress) ==
  IF Len(files) % (2 * ProgressEvery) = 0 THEN Append(progress, Len(files)) ELSE progress

\* "Notify UI periodically": if (files.length % 5 === 0) onProgress(files.length)
progressAfterPush(files, progress) ==
  IF Len(files) % ProgressEvery = 0 THEN Append(progress, Len(files)) ELSE progress

\* mutation of collectSubDir: the recursive flag is not consulted
collectSubDir_always(subDirs, e, recursive) == Append(subDirs, e)

\* a directory entry: if (recursive) subDirs.push(...)
collectSubDir(subDirs, e, recursive) == IF recursive THEN Append(subDirs, e) ELSE subDirs

\* mutation of pushSubDirs: the sub-directories are pushed in discovery order
pushSubDirs_unreversed(stack, subDirs) == stack \o subDirs

\* for (const dir of subDirs.reverse()) stack.push(dir)
pushSubDirs(stack, subDirs) == stack \o Reverse(subDirs)

\* mutation of afterFileFailure: the failing entry is tried again
afterFileFailure_retry(todo) == todo

\* mutation of afterFileFailure: the failure leaves the loop over the directory
afterFileFailure_leaveDirectory(todo) == <<>>

\* the inner catch: the file is skipped, the loop goes on with the next entry
afterFileFailure(todo) == Tail(todo)

\* mutation of onAbort: the cancelled scan rejects with an AbortError
onAbort_throws == "threw"

\* a cancelled scan leaves the loop and returns like a completed one
onAbort == "done"

Init ==
  /\ InitApp
  /\ tree = NoTree
  /\ scan = NoScan
  /\ calls = <<>>
  /\ size \in {sz \in [Files -> Sizes] : \A f, g \in Files : f <= g => sz[f] >= sz[g]}
  /\ removeSupported \in BOOLEAN
  /\ pickerSupported \in BOOLEAN

\* --------------------------------------------------------------- actions
\* handleSelectDest: the picker returns a directory, or the user cancels it
handleSelectDest(picked) ==
  /\ appState = "IDLE"
  /\ destHandle' = IF picked /\ pickerSupported THEN TRUE ELSE destHandle
  /\ lastOp' = Op("selectDest", "none", "none",
                  IF picked /\ pickerSupported THEN "ok" ELSE "cancelled")
  /\ UNCHANGED <<appState, fileQueue, currentIndex, pendingDelete, historyStack,
                 bytesDeleted, filesDeleted, filesKept, errorMsg>>
  /\ UNCHANGED <<fsVars, envVars, scanVars, calls, pre, markState, decideRun, sessVars>>

\* mutation of sessionStart: the permission is not asked for
sessionStart_noPermissionCheck(name, confirmed, granted) ==
  IF ~pickerSupported THEN "unsupported"
  ELSE IF mismatch(name) /\ ~confirmed THEN "declined"
  ELSE "scan"

\* handleSelectSource up to the scan: the capability test, the picker, the
\* warning on a mismatch and the permission check
sessionStart(name, confirmed, granted) ==
  IF ~pickerSupported THEN "unsupported"
  ELSE IF mismatch(name) /\ ~confirmed THEN "declined"
  ELSE IF ~granted THEN "denied"
  ELSE "scan"

\* mutation of scanOutcome: files.length === 0 is not tested
scanOutcome_noEmptyCheck(found) ==
  IF found # {} /\ FilterIgnored(SeqOfSet(found), ignoredPaths) = <<>> THEN "allProcessed"
  ELSE "review"

\* handleScanComplete: where the scanned list leads
scanOutcome(found) ==
  IF found = {} THEN "empty"
  ELSE IF FilterIgnored(SeqOfSet(found), ignoredPaths) = <<>> THEN "allProcessed"
  ELSE "review"

\* handleSelectSource, the scan it awaits and handleScanComplete.  name is the
\* name of the picked folder, confirmed the answer to window.confirm (asked on a
\* mismatch only), granted the permission, found the set of media files the scan
\* returns
handleSelectSource(name, confirmed, granted, found) ==
  /\ appState = "IDLE"
  /\ historyStack' = <<>>
  /\ pendingDelete' = None
  /\ ignoredPaths' = IF resumeMode THEN ignoredPaths ELSE {}
  /\ resumeFolderName' = IF resumeMode THEN resumeFolderName ELSE NoName
  /\ IF sessionStart(name, confirmed, granted) = "unsupported"
     THEN /\ errorMsg' = "unsupported"
          /\ appState' = "IDLE"
          /\ UNCHANGED <<fileQueue, sourceName, originalTotalBytes, sourceMode>>
          /\ lastOp' = Op("selectSource", "none", "none", "unsupported")
     ELSE IF sessionStart(name, confirmed, granted) = "declined"
     THEN /\ errorMsg' = "none"
          /\ appState' = "IDLE"
          /\ sourceMode' = "readwrite"
          /\ UNCHANGED <<fileQueue, sourceName, originalTotalBytes>>
          /\ lastOp' = Op("selectSource", "none", "none", "declined")
     ELSE IF sessionStart(name, confirmed, granted) = "denied"
     THEN /\ errorMsg' = "accessFailed"
          /\ appState' = "IDLE"
          /\ sourceMode' = "readwrite"
          /\ UNCHANGED <<fileQueue, sourceName, originalTotalBytes>>
          /\ lastOp' = Op("selectSource", "none", "none", "denied")
     ELSE IF scanOutcome(found) = "empty"
     THEN /\ errorMsg' = "noMedia"
          /\ appState' = "IDLE"
          /\ sourceName' = name
          /\ sourceMode' = "readwrite"
          /\ UNCHANGED <<fileQueue, originalTotalBytes>>
          /\ lastOp' = Op("selectSource", "none", "none", "empty")
     ELSE IF scanOutcome(found) = "allProcessed"
     THEN /\ errorMsg' = "allProcessed"
          /\ appState' = "FINISHED"
          /\ sourceName' = name
          /\ sourceMode' = "readwrite"
          /\ UNCHANGED <<fileQueue, originalTotalBytes>>
          /\ lastOp' = Op("selectSource", "none", "none", "allProcessed")
     ELSE /\ errorMsg' = "none"
          /\ fileQueue' = SortBySizeDesc(FilterIgnored(SeqOfSet(found), ignoredPaths), size)
          /\ originalTotalBytes' =
               SumSizes(SortBySizeDesc(FilterIgnored(SeqOfSet(found), ignoredPaths), size), size)
          /\ appState' = "REVIEW"
          /\ sourceName' = name
          /\ sourceMode' = "readwrite"
          /\ lastOp' = Op("selectSource", "none", "none", "review")
  /\ decideRun' = 0
  /\ pre' = NoSnapshot
  /\ UNCHANGED <<destHandle, currentIndex, bytesDeleted, filesDeleted, filesKept>>
  /\ UNCHANGED <<fsVars, envVars, scanVars, calls, markState, resumeMode, exported>>

\* handleLoadProgress with the file the user picks in the dialog (the Resume
\* button exists in the start screen outside resume mode only)
handleLoadProgress(payload) ==
  /\ appState = "IDLE"
  /\ ~resumeMode
  /\ IF payload.kind = "noFile"
     THEN /\ errorMsg' = "none"
          /\ UNCHANGED resumeVars
          /\ lastOp' = Op("load", "none", "none", "cancelled")
     ELSE IF loadResult(payload).ok
     THEN /\ errorMsg' = "none"
          /\ ignoredPaths' = loadResult(payload).ignoredPaths
          /\ resumeFolderName' = loadResult(payload).folderName
          /\ resumeMode' = TRUE
          /\ lastOp' = Op("load", "none", "none", "accepted")
     ELSE /\ errorMsg' = "loadFailed"
          /\ UNCHANGED resumeVars
          /\ lastOp' = Op("load", "none", "none", "rejected")
  /\ UNCHANGED <<appState, destHandle, fileQueue, currentIndex, pendingDelete, historyStack,
                 bytesDeleted, filesDeleted, filesKept>>
  /\ UNCHANGED <<fsVars, envVars, scanVars, calls, pre, markState, decideRun, sourceName, exported,
                 originalTotalBytes, sourceMode>>

\* the "Cancel / Start Over" button of the resume screen
cancelResume ==
  /\ appState = "IDLE"
  /\ resumeMode
  /\ resumeMode' = FALSE
  /\ ignoredPaths' = {}
  /\ resumeFolderName' = NoName
  /\ lastOp' = Op("cancelResume", "none", "none", "none")
  /\ UNCHANGED <<appVars, fsVars, envVars, scanVars, calls, pre, markState, decideRun, sourceName, exported,
                 originalTotalBytes, sourceMode>>

\* handleSaveProgress (the save button exists in the review screen only, where
\* sourceHandle is set): the download replaces the progress file
handleSaveProgress ==
  /\ appState = "REVIEW"
  /\ sourceName # NoName
  /\ exported' = exportSnapshot
  /\ UNCHANGED <<appVars, fsVars, envVars, scanVars, calls, histVars, resumeVars, sourceName,
                 originalTotalBytes, sourceMode>>

\* mutation of executePendingDelete: the pending item is dropped without removal
executePendingDelete_dropOnly(fails) ==
  [res |-> "none", storage |-> storage, bytesDeleted |-> bytesDeleted,
   filesDeleted |-> filesDeleted]

\* mutation of executePendingDelete: the size is assigned to the total, not added
executePendingDelete_assignBytes(fails) ==
  IF pendingDelete = None
  THEN [res |-> "none", storage |-> storage, bytesDeleted |-> bytesDeleted,
        filesDeleted |-> filesDeleted]
  ELSE LET r == deleteFile(pendingDelete, storage, fails)
       IN  IF r = "throw"
           THEN [res |-> r, storage |-> storage, bytesDeleted |-> bytesDeleted,
                 filesDeleted |-> filesDeleted]
           ELSE [res |-> r,
                 storage |-> IF r = "removed" THEN storage \ {pendingDelete} ELSE storage,
                 bytesDeleted |-> size[pendingDelete],
                 filesDeleted |-> filesDeleted + 1]

\* executePendingDelete as called first in processAction: the outcome of the
\* removal, and storage and the counters afterwards (pendingDelete is cleared)
executePendingDelete(fails) ==
  IF pendingDelete = None
  THEN [res |-> "none", storage |-> storage, bytesDeleted |-> bytesDeleted,
        filesDeleted |-> filesDeleted]
  ELSE LET r == deleteFile(pendingDelete, storage, fails)
       IN  IF r = "throw"
           THEN [res |-> r, storage |-> storage, bytesDeleted |-> bytesDeleted,
                 filesDeleted |-> filesDeleted]
           ELSE [res |-> r,
                 storage |-> IF r = "removed" THEN storage \ {pendingDelete} ELSE storage,
                 bytesDeleted |-> bytesDeleted + size[pendingDelete],
                 filesDeleted |-> filesDeleted + 1]

\* mutation of isDeleteAction: the destination is not consulted
isDeleteAction_anyMode(action) == action = DELETE

\* isDeleteAction: the left action in single-folder mode
isDeleteAction(action) == action = DELETE /\ ~destHandle

\* mutation of advanceQueue: the cursor moves past the last item as well
advanceQueue_pastLast ==
  IF isLast
  THEN [appState |-> "FINISHED", currentIndex |-> currentIndex + 1, errorMsg |-> errorMsg]
  ELSE [appState |-> appState, currentIndex |-> currentIndex + 1, errorMsg |-> errorMsg]

\* "2. Advance Queue" when nothing threw
advanceQueue ==
  IF isLast
  THEN [appState |-> "FINISHED", currentIndex |-> currentIndex, errorMsg |-> errorMsg]
  ELSE [appState |-> appState, currentIndex |-> currentIndex + 1, errorMsg |-> errorMsg]

\* mutation of catchBlock: the error is reported but the queue stays where it is
catchBlock_noAdvance ==
  [appState |-> appState, currentIndex |-> currentIndex, errorMsg |-> "skipped"]

\* the catch block of processAction
catchBlock ==
  IF isLast
  THEN [appState |-> "FINISHED", currentIndex |-> currentIndex, errorMsg |-> errorMsg]
  ELSE [appState |-> appState, currentIndex |-> currentIndex + 1, errorMsg |-> "skipped"]

\* setHistoryStack(prev => [...prev, currentIndex]); a throwing copy never gets there
pushHistory(copyThrew) ==
  IF copyThrew THEN historyStack ELSE Append(historyStack, currentIndex)

\* mutation of stagePending: the right action stages the item as well
stagePending_anyAction(action, lastDelete) ==
  IF ~destHandle /\ ~(isLast /\ lastDelete # "throw") THEN currentFile ELSE None

\* the pendingDelete a processAction call leaves: staged by the left action, cleared
\* again when the last item's own removal returned
stagePending(action, lastDelete) ==
  IF isDeleteAction(action) /\ ~(isLast /\ lastDelete # "throw") THEN currentFile ELSE None

\* mutation of lastItemDelete: the removal is not deferred, every DELETE removes at once
lastItemDelete_immediate(action, st, fails) ==
  IF isDeleteAction(action) THEN deleteFile(currentFile, st, fails) ELSE "none"

\* "if this was the last file, flush the delete we just queued": its outcome
lastItemDelete(action, st, fails) ==
  IF isDeleteAction(action) /\ isLast THEN deleteFile(currentFile, st, fails) ELSE "none"

\* what a processAction call does to the DELETE marks: the call commits the mark
\* of the step before it ("fresh": marked, neither undone nor followed by a decide)
\* and, on DELETE in single-folder mode, marks the current item; a mark on the
\* last item is committed at once; "committed" is kept for good
MarkAfterDecide(action) ==
  [f \in Files |->
     IF markState[f] \in {"fresh", "committed"} THEN "committed"
     ELSE IF f = currentFile /\ action = DELETE /\ ~destHandle
     THEN (IF isLast THEN "committed" ELSE "fresh")
     ELSE markState[f]]

processAction(action, flushFails, lastFails, copyIn) ==
  /\ appState = "REVIEW"
  /\ currentFile # None
  /\ filesKept < MaxCount       \* the totals are unbounded in the source
  /\ filesDeleted < MaxCount
  /\ LET fl == executePendingDelete(flushFails)
         cp == IF action = KEEP /\ destHandle
               THEN copyFileToDirectory(currentFile, fl.storage, dest, copyIn)
               ELSE [res |-> "none", dest |-> dest]
         ld == lastItemDelete(action, fl.storage, lastFails)
         counted == ld \in {"removed", "noop"}
         adv == IF cp.res = "throw" \/ ld = "throw" THEN catchBlock ELSE advanceQueue
     IN  /\ appState' = adv.appState
         /\ currentIndex' = adv.currentIndex
         /\ errorMsg' = adv.errorMsg
         /\ filesKept' = IF action = KEEP /\ cp.res # "throw" THEN filesKept + 1 ELSE filesKept
         /\ historyStack' = pushHistory(cp.res = "throw")
         /\ pendingDelete' = stagePending(action, ld)
         /\ storage' = IF ld = "removed" THEN fl.storage \ {currentFile} ELSE fl.storage
         /\ bytesDeleted' = fl.bytesDeleted + (IF counted THEN size[currentFile] ELSE 0)
         /\ filesDeleted' = fl.filesDeleted + (IF counted THEN 1 ELSE 0)
         /\ dest' = cp.dest
         /\ lastOp' = Op("decide", action, fl.res, IF cp.res # "none" THEN cp.res ELSE ld)
  /\ markState' = MarkAfterDecide(action)
  /\ pre' = Snapshot
  /\ decideRun' = IF decideRun >= 0 THEN decideRun + 1 ELSE decideRun
  /\ UNCHANGED <<destHandle, fileQueue, envVars, scanVars, calls, sessVars>>

\* mutation of undoResult: one level only, the rest of the history is dropped
undoResult_oneLevel ==
  IF historyStack = <<>>
  THEN [currentIndex |-> currentIndex, pendingDelete |-> pendingDelete,
        historyStack |-> historyStack]
  ELSE [currentIndex |-> historyStack[Len(historyStack)],
        pendingDelete |-> IF pendingDelete # None
                             /\ pendingDelete = fileQueue[historyStack[Len(historyStack)] + 1]
                          THEN None ELSE pendingDelete,
        historyStack |-> <<>>]

\* mutation of undoResult: no early return on an empty history
undoResult_noGuard ==
  IF historyStack = <<>>
  THEN [currentIndex |-> 0, pendingDelete |-> None, historyStack |-> <<>>]
  ELSE [currentIndex |-> historyStack[Len(historyStack)],
        pendingDelete |-> IF pendingDelete # None
                             /\ pendingDelete = fileQueue[historyStack[Len(historyStack)] + 1]
                          THEN None ELSE pendingDelete,
        historyStack |-> SubSeq(historyStack, 1, Len(historyStack) - 1)]

\* mutation of undoResult: the pending flag is not cleared
undoResult_keepPending ==
  IF historyStack = <<>>
  THEN [currentIndex |-> currentIndex, pendingDelete |-> pendingDelete,
        historyStack |-> historyStack]
  ELSE [currentIndex |-> historyStack[Len(historyStack)],
        pendingDelete |-> pendingDelete,
        historyStack |-> SubSeq(historyStack, 1, Len(historyStack) - 1)]

\* handleUndo: the cursor, pendingDelete and history it sets
undoResult ==
  IF historyStack = <<>>
  THEN [currentIndex |-> currentIndex, pendingDelete |-> pendingDelete,
        historyStack |-> historyStack]
  ELSE LET prevIndex == historyStack[Len(historyStack)]
           prevFile == fileQueue[prevIndex + 1]
       IN  [currentIndex |-> prevIndex,
            pendingDelete |-> IF pendingDelete # None /\ pendingDelete = prevFile
                              THEN None ELSE pendingDelete,
            historyStack |-> SubSeq(historyStack, 1, Len(historyStack) - 1)]

\* handleUndo (the undo button exists in the review screen only)
handleUndo ==
  /\ appState = "REVIEW"
  /\ currentIndex' = undoResult.currentIndex
  /\ pendingDelete' = undoResult.pendingDelete
  /\ historyStack' = undoResult.historyStack
  /\ markState' = IF historyStack = <<>> THEN markState
                  ELSE [f \in Files |->
                          IF markState[f] = "fresh" THEN "undone" ELSE markState[f]]
  /\ lastOp' = Op("undo", lastOp.op, "none", IF historyStack = <<>> THEN "empty" ELSE "popped")
  /\ decideRun' = -1
  /\ UNCHANGED <<appState, destHandle, fileQueue, bytesDeleted, filesDeleted, filesKept,
                 errorMsg>>
  /\ UNCHANGED <<fsVars, envVars, scanVars, calls, pre, sessVars>>

\* setTimeout(() => setErrorMsg(null), 2000) scheduled by the catch block
errorTimeout ==
  /\ errorMsg = "skipped"
  /\ errorMsg' = "none"
  /\ UNCHANGED <<appState, destHandle, fileQueue, currentIndex, pendingDelete, historyStack,
                 bytesDeleted, filesDeleted, filesKept>>
  /\ UNCHANGED <<fsVars, envVars, scanVars, calls, histVars, sessVars>>

\* the environment's answers that the call can observe in the current state
FlushInputs == IF pendingDelete # None THEN BOOLEAN ELSE {FALSE}

LastInputs(action) == IF action = DELETE /\ ~destHandle /\ isLast THEN BOOLEAN ELSE {FALSE}

CopyInputsFor(action) == IF action = KEEP /\ destHandle THEN CopyInputs ELSE {"streamOk"}

\* The finished screen offers only window.location.reload(), which constructs a
\* new App: FINISHED is terminal for this App instance.
Next ==
  \/ \E picked \in BOOLEAN : handleSelectDest(picked)
  \/ \E granted \in BOOLEAN, found \in SUBSET storage :
       handleSelectSource(DefaultFolder, TRUE, granted, found)
  \/ \E action \in SwipeAction, flushFails \in FlushInputs :
       \E lastFails \in LastInputs(action), copyIn \in CopyInputsFor(action) :
          processAction(action, flushFails, lastFails, copyIn)
  \/ handleUndo
  \/ errorTimeout

Spec == Init /\ [][Next]_vars

\* ---- sessions that use the progress file.  The storage answers every call
\* (remove() and the copy never reject), no destination is chosen and all files
\* have one size: the progress file, the resume screen and the filter read none
\* of these.
InitSession == Init /\ size = [f \in Files |-> 1]

\* the progress files a user may pick: any array of paths, arrays holding a
\* non-string or the same path twice, and the malformed ones
PathLists ==
  {SeqOfSet(S) : S \in SUBSET Files} \cup {<<NonString>>, <<NonString, 1>>, <<1, 1>>}

Payloads ==
  {ProgressFile("snapshot", n, l) : n \in FolderNames \cup {NoName}, l \in PathLists}
  \cup {ProgressFile(k, DefaultFolder, <<>>) : k \in {"noFile", "notJson", "noField", "notArray"}}

ConfirmInputs(name) == IF mismatch(name) THEN BOOLEAN ELSE {TRUE}

NextSession ==
  \/ \E payload \in Payloads : handleLoadProgress(payload)
  \/ cancelResume
  \/ \E granted \in BOOLEAN, found \in SUBSET storage :
       \E confirmed \in ConfirmInputs(DefaultFolder) :
          handleSelectSource(DefaultFolder, confirmed, granted, found)
  \/ \E action \in SwipeAction : processAction(action, FALSE, FALSE, "streamOk")
  \/ handleUndo
  \/ handleSaveProgress

SpecSession == InitSession /\ [][NextSession]_vars

\* ---- the construction of the queue alone, over files of any sizes: the scan
\* lists the files in ascending number, so every pattern of sizes along the
\* discovery order occurs.  The progress files name the picked folder and the
\* permission is granted: neither has a part in the queue.
InitSort ==
  /\ InitApp
  /\ tree = NoTree
  /\ scan = NoScan
  /\ calls = <<>>
  /\ size \in [Files -> Sizes]
  /\ removeSupported = TRUE
  /\ pickerSupported = TRUE

NextSort ==
  \/ \E payload \in {p \in Payloads : p.folderName = DefaultFolder} : handleLoadProgress(payload)
  \/ cancelResume
  \/ \E found \in SUBSET storage : handleSelectSource(DefaultFolder, TRUE, TRUE, found)

SpecSort == InitSort /\ [][NextSort]_vars

\* ---- scanDirectory, one step per loop test and per directory entry.  The
\* fields pushed and visited of scan record every stack.push and every
\* stack.pop of the call, in order.
\* the call made by handleSelectSource
scanStart ==
  /\ scan.pc = "idle"
  /\ scan' = [NoScan EXCEPT !.pc = "loop", !.stack = <<Root>>, !.pushed = <<Root>>]
  /\ UNCHANGED <<appVars, fsVars, envVars, histVars, sessVars, tree, calls>>

\* the head of the while loop: leave on an empty stack or an aborted signal (the
\* final onProgress follows), else pop a directory and open it
scanLoop ==
  /\ scan.pc = "loop"
  /\ scan' =
       IF scan.stack = <<>>
       THEN [scan EXCEPT !.pc = "done", !.progress = Append(scan.progress, Len(scan.files))]
       ELSE IF scan.aborted
       THEN [scan EXCEPT !.pc = onAbort, !.progress = Append(scan.progress, Len(scan.files))]
       ELSE LET d == scan.stack[Len(scan.stack)]
                rest == SubSeq(scan.stack, 1, Len(scan.stack) - 1)
            IN  IF tree.fail = d
                THEN [scan EXCEPT !.stack = rest, !.visited = Append(scan.visited, d)]
                ELSE [scan EXCEPT !.pc = "enum", !.stack = rest, !.dir = d,
                                  !.todo = Children(tree, d), !.subDirs = <<>>,
                                  !.visited = Append(scan.visited, d)]
  /\ UNCHANGED <<appVars, fsVars, envVars, histVars, sessVars, tree, calls>>

\* one turn of the for-await loop over the entries of the open directory, or
\* its end (by exhaustion or by the aborted signal) and the push of subDirs
scanEntry ==
  /\ scan.pc = "enum"
  /\ scan' =
       IF scan.todo = <<>> \/ scan.aborted
       THEN [scan EXCEPT !.pc = "loop", !.stack = pushSubDirs(scan.stack, scan.subDirs),
                         !.dir = 0, !.todo = <<>>, !.subDirs = <<>>,
                         !.pushed = scan.pushed \o
                                    SubSeq(pushSubDirs(scan.stack, scan.subDirs),
                                           Len(scan.stack) + 1,
                                           Len(pushSubDirs(scan.stack, scan.subDirs)))]
       ELSE LET e == Head(scan.todo)
            IN  IF KindOf(tree, e) = "dir"
                THEN [scan EXCEPT !.todo = Tail(scan.todo),
                                  !.subDirs = collectSubDir(scan.subDirs, e, tree.recursive)]
                ELSE IF tree.fail = e
                THEN [scan EXCEPT !.todo = afterFileFailure(scan.todo)]
                ELSE IF mediaType(KindOf(tree, e)) = "unknown"
                THEN [scan EXCEPT !.todo = Tail(scan.todo)]
                ELSE [scan EXCEPT !.todo = Tail(scan.todo),
                                  !.files = Append(scan.files, e),
                                  !.progress = progressAfterPush(Append(scan.files, e),
                                                                 scan.progress)]
  /\ UNCHANGED <<appVars, fsVars, envVars, histVars, sessVars, tree, calls>>

\* stopScanningAndStart: abortControllerRef.current.abort().  The button is
\* enabled once a progress callback reported files; here the signal may be
\* aborted at any point of the scan, which includes those points
stopScanningAndStart ==
  /\ scan.pc \in {"loop", "enum"}
  /\ ~scan.aborted
  /\ scan' = [scan EXCEPT !.aborted = TRUE]
  /\ UNCHANGED <<appVars, fsVars, envVars, histVars, sessVars, tree, calls>>

InitScan ==
  /\ InitApp
  /\ size = [f \in Files |-> 1]
  /\ removeSupported = TRUE
  /\ pickerSupported = TRUE
  /\ tree \in {t \in Trees : WellFormedTree(t)}
  /\ scan = NoScan
  /\ calls = <<>>

NextScan ==
  \/ scanStart
  \/ scanLoop
  \/ scanEntry
  \/ stopScanningAndStart

SpecScan == InitScan /\ [][NextScan]_vars

\* ---- the scan once called: every await of scanDirectory (handle.values(),
\* getFile()) settles, by a value or by a rejection, so the loop head and the
\* loop over the entries are taken whenever they are enabled.  Nothing obliges
\* the user to start a scan or to cancel one.
SpecScanFair == SpecScan /\ WF_vars(scanLoop) /\ WF_vars(scanEntry)

TypeOK ==
  /\ appState \in {"IDLE", "REVIEW", "FINISHED"}
  /\ scan.pc \in {"idle", "loop", "enum", "done", "threw"}
  /\ Len(scan.stack) <= MaxNodes
  /\ Len(scan.files) <= MaxNodes * (MaxPad + 1)
  /\ Len(calls) <= MaxCalls
  /\ destHandle \in BOOLEAN
  /\ currentIndex \in 0..(MaxFiles + MaxCalls)
  /\ pendingDelete \in Files \cup {None}
  /\ storage \subseteq Files

\* ---- processAction calls that overlap.  A call is suspended at its first
\* await that reaches the file system: remove() of the pending item, or the copy.
\* Nothing is set before that await, so no render happens and a click that
\* arrives meanwhile runs the same closure.  The rest of the call runs at the
\* resumption with the values of its closure (currentFile, currentIndex,
\* pendingDelete, destHandle, fileQueue.length); the setters given a function
\* (the counters, the history, setCurrentIndex(prev => prev + 1)) apply it to
\* the state of the moment.
HasIO(action) ==
  \/ pendingDelete # None /\ removeSupported
  \/ action = KEEP /\ destHandle

decideSuspend(action) ==
  /\ appState = "REVIEW"
  /\ currentFile # None
  /\ Len(calls) < MaxCalls
  /\ HasIO(action)
  /\ calls' = Append(calls, [action |-> action, index |-> currentIndex,
                              pending |-> pendingDelete, file |-> currentFile,
                              last |-> isLast, dest |-> destHandle, fl |-> "inFlight"])
  /\ UNCHANGED <<appVars, fsVars, envVars, histVars, sessVars, scanVars>>

\* remove() of the pending item takes effect in storage before its promise
\* resolves: from then on the outcome is fixed, the call is still suspended
removeEffect(i, flushFails) ==
  /\ i \in DOMAIN calls
  /\ calls[i].pending # None
  /\ calls[i].fl = "inFlight"
  /\ LET r == deleteFile(calls[i].pending, storage, flushFails)
     IN  /\ calls' = [calls EXCEPT ![i].fl = r]
         /\ storage' = IF r = "removed" THEN storage \ {calls[i].pending} ELSE storage
  /\ UNCHANGED <<appVars, dest, envVars, histVars, sessVars, scanVars>>

decideResume(i, flushFails, lastFails, copyIn) ==
  /\ i \in DOMAIN calls
  /\ filesKept < MaxCount       \* the totals are unbounded in the source
  /\ filesDeleted + 1 < MaxCount
  /\ LET c == calls[i]
         fl == IF c.pending = None THEN "none"
               ELSE IF c.fl # "inFlight" THEN c.fl
               ELSE deleteFile(c.pending, storage, flushFails)
         flushed == IF fl = "removed" THEN storage \ {c.pending} ELSE storage
         del == c.action = DELETE /\ ~c.dest
         cp == IF c.action = KEEP /\ c.dest
               THEN copyFileToDirectory(c.file, flushed, dest, copyIn)
               ELSE [res |-> "none", dest |-> dest]
         ld == IF del /\ c.last THEN deleteFile(c.file, flushed, lastFails) ELSE "none"
         threw == cp.res = "throw" \/ ld = "throw"
         n1 == IF fl \in {"removed", "noop"} THEN 1 ELSE 0
         n2 == IF ld \in {"removed", "noop"} THEN 1 ELSE 0
     IN  /\ appState' = IF c.last THEN "FINISHED" ELSE appState
         /\ currentIndex' = IF c.last THEN currentIndex ELSE currentIndex + 1
         /\ errorMsg' = IF threw /\ ~c.last THEN "skipped" ELSE errorMsg
         /\ filesKept' = IF c.action = KEEP /\ cp.res # "throw" THEN filesKept + 1 ELSE filesKept
         /\ historyStack' = IF cp.res = "throw" THEN historyStack
                             ELSE Append(historyStack, c.index)
         /\ pendingDelete' = IF del THEN (IF c.last /\ ld # "throw" THEN None ELSE c.file)
                              ELSE IF c.pending # None THEN None ELSE pendingDelete
         /\ storage' = IF ld = "removed" THEN flushed \ {c.file} ELSE flushed
         /\ bytesDeleted' = bytesDeleted + n1 * size[IF c.pending = None THEN c.file ELSE c.pending]
                                          + n2 * size[c.file]
         /\ filesDeleted' = filesDeleted + n1 + n2
         /\ dest' = cp.dest
         /\ lastOp' = Op("decide", c.action, fl, IF cp.res # "none" THEN cp.res ELSE ld)
         /\ calls' = SubSeq(calls, 1, i - 1) \o SubSeq(calls, i + 1, Len(calls))
  /\ pre' = Snapshot
  /\ UNCHANGED <<destHandle, fileQueue, envVars, scanVars, sessVars, markState, decideRun>>

ResumeInputs(c) ==
  [flush : IF c.pending # None /\ c.fl = "inFlight" THEN BOOLEAN ELSE {FALSE},
   last : IF c.action = DELETE /\ ~c.dest /\ c.last THEN BOOLEAN ELSE {FALSE},
   copy : IF c.action = KEEP /\ c.dest THEN CopyInputs ELSE {"streamOk"}]

InitReentrant ==
  /\ Init
  /\ size = [f \in Files |-> 1]
  /\ removeSupported = TRUE
  /\ pickerSupported = TRUE

NextReentrant ==
  \/ \E picked \in BOOLEAN : handleSelectDest(picked)
  \/ \E found \in SUBSET storage : handleSelectSource(DefaultFolder, TRUE, TRUE, found)
  \/ \E action \in SwipeAction, flushFails \in FlushInputs :
       \E lastFails \in LastInputs(action), copyIn \in CopyInputsFor(action) :
          processAction(action, flushFails, lastFails, copyIn)
  \/ \E action \in SwipeAction : decideSuspend(action)
  \/ \E i \in DOMAIN calls, flushFails \in BOOLEAN : removeEffect(i, flushFails)
  \/ \E i \in DOMAIN calls : \E in \in ResumeInputs(calls[i]) :
       decideResume(i, in.flush, in.last, in.copy)
  \/ handleUndo

SpecReentrant == InitReentrant /\ [][NextReentrant]_vars

\* ------------------------------------------------------------ properties
\* a step of decide(action), whatever the environment answers
DecideStep(action) ==
  /\ appState = "REVIEW"
  /\ lastOp'.op = "decide"
  /\ lastOp'.action = action
  /\ \E flushFails \in FlushInputs :
       \E lastFails \in LastInputs(action), copyIn \in CopyInputsFor(action) :
          processAction(action, flushFails, lastFails, copyIn)

\* a step of decide(action) in which remove() of the pending item answers as given
DecideStepWith(action, flushFails) ==
  /\ appState = "REVIEW"
  /\ lastOp'.op = "decide"
  /\ lastOp'.action = action
  /\ \E lastFails \in LastInputs(action), copyIn \in CopyInputsFor(action) :
        processAction(action, flushFails, lastFails, copyIn)

\* a step that records a decide: every processAction step does, whatever the
\* action and the environment's answers
DecideRecorded == appState = "REVIEW" /\ lastOp'.op = "decide" /\ pre' = Snapshot

\* the last handler was decide(action) and left the queue in review
JustDecided(action) == lastOp.op = "decide" /\ lastOp.action = action /\ appState = "REVIEW"

\* C1 (as stated): in single-folder mode decide(DELETE) on an item that is not the
\* last removes nothing from storage, sets PendingDeletion to the item, advances
\* the cursor by one and leaves bytesDeleted and filesDeleted unchanged.
C1_AsStated ==
  [][(~destHandle /\ ~isLast /\ DecideStep(DELETE)) =>
       /\ storage' = storage
       /\ pendingDelete' = currentFile
       /\ currentIndex' = currentIndex + 1
       /\ bytesDeleted' = bytesDeleted
       /\ filesDeleted' = filesDeleted]_vars

\* C1 (amended): in single-folder mode decide(DELETE) on an item that is not the
\* last does not remove that item: it sets PendingDeletion to it and advances the
\* cursor by one; storage, bytesDeleted and filesDeleted are unchanged when no
\* PendingDeletion was outstanding and otherwise change only by the flush of the
\* previously pending item.
C1_DeferredDelete ==
  [][(~destHandle /\ ~isLast /\ DecideStep(DELETE)) =>
       /\ pendingDelete' = currentFile
       /\ currentIndex' = currentIndex + 1
       /\ appState' = "REVIEW"
       /\ (currentFile \in storage') = (currentFile \in storage)
       /\ storage' \subseteq storage
       /\ storage \ storage' \subseteq {pendingDelete}
       /\ \/ bytesDeleted' = bytesDeleted /\ filesDeleted' = filesDeleted
          \/ /\ pendingDelete # None
             /\ bytesDeleted' = bytesDeleted + size[pendingDelete]
             /\ filesDeleted' = filesDeleted + 1
       /\ (pendingDelete = None =>
             storage' = storage /\ bytesDeleted' = bytesDeleted /\ filesDeleted' = filesDeleted)]_vars

\* C1 witness: decide(DELETE) has just marked a non-last item in single-folder mode
\* while an earlier PendingDeletion was flushed by the same call
C1_Witness ==
  /\ JustDecided(DELETE) /\ ~destHandle
  /\ pendingDelete = pre.file /\ pendingDelete \in storage
  /\ currentIndex = pre.cursor + 1
  /\ lastOp.flush = "removed" /\ pre.pending \notin storage

\* C2 (as stated): every decide first flushes the PendingDeletion left by the
\* previous step: the pending item is removed from storage, bytesDeleted grows by
\* its size, filesDeleted grows by one, PendingDeletion no longer holds the item.
C2_AsStated ==
  [][(pendingDelete # None /\ (DecideStep(KEEP) \/ DecideStep(DELETE))) =>
       /\ pendingDelete \notin storage'
       /\ bytesDeleted' >= bytesDeleted + size[pendingDelete]
       /\ filesDeleted' >= filesDeleted + 1
       /\ pendingDelete' # pendingDelete]_vars

\* C2 (amended): every decide first attempts to flush the PendingDeletion left by
\* the previous step, and afterwards PendingDeletion no longer holds that item.
\* When the handle's remove() is carried out, the item is gone from storage,
\* bytesDeleted has grown by its size and filesDeleted by one (plus the share of
\* the last item's own delete); when remove() is rejected the item stays in
\* storage and the flush adds nothing to the counters.
C2_FlushFirst ==
  [][\A action \in SwipeAction, flushFails \in BOOLEAN :
       (pendingDelete # None /\ DecideStepWith(action, flushFails)) =>
         LET own == IF isDeleteAction(action) /\ isLast /\ pendingDelete' = None
                    THEN 1 ELSE 0
         IN  /\ pendingDelete' # pendingDelete
             /\ (removeSupported /\ ~flushFails /\ pendingDelete \in storage) =>
                  /\ pendingDelete \notin storage'
                  /\ bytesDeleted' = bytesDeleted + size[pendingDelete] + own * size[currentFile]
                  /\ filesDeleted' = filesDeleted + 1 + own
             /\ (removeSupported /\ flushFails) =>
                  /\ (pendingDelete \in storage') = (pendingDelete \in storage)
                  /\ bytesDeleted' = bytesDeleted + own * size[currentFile]
                  /\ filesDeleted' = filesDeleted + own]_vars

\* C2 witness: a decide has flushed the pending item of the step before it
C2_Witness ==
  /\ lastOp.op = "decide" /\ lastOp.flush = "removed"
  /\ pre.pending # None /\ pre.pending \notin storage /\ pre.pending \in pre.storage
  /\ pendingDelete # pre.pending
  /\ filesDeleted >= 1 /\ bytesDeleted >= size[pre.pending]

\* C3 (as stated): in single-folder mode undo() right after decide(DELETE) on A
\* restores the state before that decide: cursor back on A, PendingDeletion empty,
\* storage unchanged and A still present.
C3_AsStated ==
  [][(handleUndo /\ JustDecided(DELETE) /\ ~destHandle) =>
       /\ currentIndex' = pre.cursor
       /\ pendingDelete' = None
       /\ storage' = pre.storage
       /\ pre.file \in storage']_vars

\* C3 (amended): in single-folder mode undo() right after decide(DELETE) on A puts
\* the cursor back on A and leaves PendingDeletion empty; undo itself changes
\* nothing in storage or the totals, and A is present exactly if it was present
\* before the decide.  The state before the decide is not restored in full: an
\* earlier PendingDeletion that this decide flushed stays flushed.
C3_UndoAfterDelete ==
  [][(handleUndo /\ JustDecided(DELETE) /\ ~destHandle) =>
       /\ pendingDelete = pre.file
       /\ currentIndex' = pre.cursor
       /\ currentFile' = pre.file
       /\ pendingDelete' = None
       /\ historyStack = Append(historyStack', pre.cursor)
       /\ storage' = storage
       /\ UNCHANGED <<bytesDeleted, filesDeleted, filesKept, dest>>
       /\ (pre.file \in storage') = (pre.file \in pre.storage)
       /\ pre.storage \ storage' \subseteq {pre.pending}]_vars

\* C3 witness: undo has just cancelled the DELETE mark of A, which is still there
C3_Witness ==
  /\ lastOp.op = "undo" /\ lastOp.action = "decide" /\ lastOp.res = "popped"
  /\ ~destHandle /\ appState = "REVIEW"
  /\ markState[currentFile] = "undone"
  /\ currentFile = pre.file /\ currentFile \in storage
  /\ pendingDelete = None

\* C4: a source file is removed from storage only if decide(DELETE) was applied to
\* it in single-folder mode and that mark was committed (the next decide ran before
\* any undo, or it was the last item); a file whose marks were all undone first,
\* or that never received DELETE, is never removed.
C4_OnlyCommittedDeletes ==
  \A f \in Files : f \notin storage => (markState[f] = "committed" /\ ~destHandle)

\* C4 witness: one file has been removed, another had its DELETE mark undone, a
\* later decide has run since, and that file is still there
C4_Witness ==
  /\ lastOp.op = "decide"
  /\ \E f, g \in Files :
       /\ f \notin storage /\ markState[f] = "committed"
       /\ markState[g] = "undone" /\ g \in storage

\* C5 (as stated): when the last item is marked DELETE in single-folder mode its
\* deletion is performed within that same decide, and whenever the queue is
\* finished no PendingDeletion is outstanding.
C5_AsStated ==
  appState = "FINISHED" =>
    /\ pendingDelete = None
    /\ (lastOp.op = "decide" /\ lastOp.action = DELETE /\ ~destHandle) => pre.file \notin storage

\* C6: in destination mode no source file is ever removed and PendingDeletion is
\* always empty; decide(DELETE) in destination mode writes nothing to the
\* destination, changes no total and only moves the queue on.
C6_DestinationMode ==
  /\ [](destHandle => (storage = Files /\ pendingDelete = None))
  /\ [][(destHandle /\ DecideStep(DELETE)) =>
          /\ dest' = dest
          /\ storage' = storage
          /\ UNCHANGED <<bytesDeleted, filesDeleted, filesKept, pendingDelete, fileQueue>>
          /\ \/ ~isLast /\ appState' = "REVIEW" /\ currentIndex' = currentIndex + 1
             \/ isLast /\ appState' = "FINISHED" /\ currentIndex' = currentIndex]_vars

\* C6 witness: destination mode, files have been copied, undo has been used, and
\* decide(DELETE) has just skipped an item
C6_Witness ==
  /\ destHandle /\ lastOp.op = "decide" /\ lastOp.action = DELETE
  /\ decideRun = -1
  /\ \E f \in Files : dest[f] = "full"
  /\ dest[pre.file] = "absent" /\ pre.file \in storage

\* C7 (as stated): undo() right after a decide that moved the cursor from i to i+1
\* sets the cursor back to i, whatever the outcome of that decide: every decide
\* that advances the cursor records the pre-advance cursor on the history stack.
C7_AsStated ==
  /\ [][(handleUndo /\ lastOp.op = "decide" /\ currentIndex = pre.cursor + 1) =>
          currentIndex' = pre.cursor]_vars
  /\ [][((DecideStep(KEEP) \/ DecideStep(DELETE)) /\ currentIndex' = currentIndex + 1) =>
          historyStack' = Append(historyStack, currentIndex)]_vars

\* C8 (as stated): undo is one level deep: after one undo() a second undo() with no
\* decide in between has no effect on cursor, PendingDeletion or history.
C8_AsStated ==
  [][(handleUndo /\ lastOp.op = "undo") =>
       UNCHANGED <<currentIndex, pendingDelete, historyStack>>]_vars

\* C8 (amended): the history is a stack: a second undo() with no decide in between
\* pops the next recorded cursor and moves the cursor further back, and has no
\* effect only when the history is empty, which in single-folder mode means that
\* the cursor is on the first item (there the history holds one record per item
\* before the cursor).  One level deep is only the cancelling of a DELETE: at a
\* second undo() PendingDeletion is already empty and stays so, and storage and
\* the totals are untouched.
C8_SecondUndo ==
  [][(handleUndo /\ lastOp.op = "undo") =>
       /\ pendingDelete = None /\ pendingDelete' = None
       /\ ~destHandle => Len(historyStack) = currentIndex
       /\ UNCHANGED <<storage, dest, bytesDeleted, filesDeleted, filesKept, fileQueue, appState>>
       /\ IF historyStack = <<>>
          THEN UNCHANGED <<currentIndex, historyStack>>
          ELSE /\ currentIndex' = historyStack[Len(historyStack)]
               /\ historyStack = Append(historyStack', currentIndex')
               /\ currentIndex' < currentIndex]_vars

\* C8 witness: two decides, then two undos in a row, the second of which moved the
\* cursor from 1 back to 0
C8_Witness ==
  /\ lastOp.op = "undo" /\ lastOp.action = "undo" /\ lastOp.res = "popped"
  /\ pre.cursor = 1 /\ currentIndex = 0 /\ historyStack = <<>>

\* C9: undo() with an empty history stack is a no-op: cursor, PendingDeletion,
\* history, totals and storage are unchanged.
C9_UndoEmptyNoop ==
  [][(handleUndo /\ historyStack = <<>>) => UNCHANGED <<appVars, fsVars>>]_vars

\* C9 witness: undo has just been called on an empty history, with the cursor
\* already off the first item (a failed copy advanced it without a record)
C9_Witness ==
  /\ lastOp.op = "undo" /\ lastOp.res = "empty"
  /\ appState = "REVIEW" /\ historyStack = <<>> /\ currentIndex = 1

\* C10: a storage failure never stalls the session: in review there is always a
\* current item, every decide either advances the cursor by exactly one or (on the
\* last item) finishes the queue, also when the flush, the last item's delete or
\* the copy fails; so with decides only the cursor equals the number of decides
\* and the queue is finished after exactly length decides.
C10_NeverStalls ==
  /\ [](appState = "REVIEW" => currentFile # None)
  /\ [][DecideRecorded =>
          \/ ~isLast /\ appState' = "REVIEW" /\ currentIndex' = currentIndex + 1
          \/ isLast /\ appState' = "FINISHED"]_vars
  /\ [](decideRun >= 0 =>
          /\ appState = "REVIEW" => (currentIndex = decideRun /\ decideRun < Len(fileQueue))
          /\ appState = "FINISHED" => decideRun = Len(fileQueue))

\* C10 witness: the queue finished after exactly length decides although the last
\* decide met a failing flush and a failing delete of the last item
C10_Witness ==
  /\ appState = "FINISHED" /\ decideRun = Len(fileQueue) /\ Len(fileQueue) >= 2
  /\ lastOp.flush = "throw" /\ lastOp.res = "throw"

\* C11 (as stated): every storage failure inside a decide is reported: a failed
\* flush of the pending delete, a failed copy and a failed delete of the last item
\* each leave a user-visible error message, on the last item as on any other.
C11_AsStated ==
  [][(appState = "REVIEW" /\ (DecideStep(KEEP) \/ DecideStep(DELETE))
      /\ (lastOp'.flush = "throw" \/ lastOp'.res = "throw"))
       => errorMsg' # "none"]_vars

\* C12 (as stated): a delete through a handle without remove() is reported and is
\* not accounted: the item stays in storage, filesDeleted and bytesDeleted do not
\* grow, and an error message is set.
C12_AsStated ==
  [][(appState = "REVIEW" /\ ~removeSupported
      /\ (DecideStep(KEEP) \/ DecideStep(DELETE))
      /\ (lastOp'.flush = "noop" \/ lastOp'.res = "noop"))
       => /\ storage' = storage
          /\ filesDeleted' = filesDeleted
          /\ bytesDeleted' = bytesDeleted
          /\ errorMsg' # "none"]_vars

\* C13 (as stated): 0 <= cursor <= length always, and a queue that holds items is
\* DONE exactly when cursor = length: after decide on the last item the cursor
\* equals the length and there is no current item.
C13_AsStated ==
  /\ 0 <= currentIndex /\ currentIndex <= Len(fileQueue)
  /\ (fileQueue # <<>> => ((appState = "FINISHED") <=> (currentIndex = Len(fileQueue))))
  /\ (appState = "FINISHED" => currentFile = None)

\* C13 (amended): the cursor starts at 0 and always satisfies 0 <= cursor <= length,
\* with cursor < length whenever the queue holds items; the queue is DONE exactly
\* when the app state is FINISHED, and decide on the last item leaves the cursor
\* on that item (cursor = length - 1), so the current item is still the last entry.
C13_CursorStaysOnLast ==
  /\ 0 <= currentIndex /\ currentIndex <= Len(fileQueue)
  /\ (appState = "IDLE" => currentIndex = 0)
  /\ (fileQueue # <<>> => currentIndex < Len(fileQueue))
  /\ (appState = "REVIEW" => fileQueue # <<>>)
  /\ (appState = "FINISHED" /\ fileQueue # <<>>
        => /\ currentIndex = Len(fileQueue) - 1
           /\ currentFile = fileQueue[Len(fileQueue)]
           /\ lastOp.op = "decide")

\* C13 witness: decide on the last item of a queue of several items has finished
\* the queue
C13_Witness ==
  /\ appState = "FINISHED" /\ lastOp.op = "decide"
  /\ Len(fileQueue) >= 2 /\ pre.cursor = Len(fileQueue) - 1

\* C14: bytesDeleted, filesDeleted and filesKept never decrease in any step that
\* is not the start of a new scan, undo leaves all three unchanged, and a new scan
\* starts with all three at zero.
C14_TotalsMonotone ==
  [][/\ (lastOp'.op # "selectSource"
          => /\ bytesDeleted' >= bytesDeleted
             /\ filesDeleted' >= filesDeleted
             /\ filesKept' >= filesKept)
     /\ (lastOp'.op = "selectSource" /\ appState = "IDLE"
          => bytesDeleted' = 0 /\ filesDeleted' = 0 /\ filesKept' = 0)
     /\ (lastOp'.op = "undo" /\ appState = "REVIEW" /\ handleUndo
          => UNCHANGED <<bytesDeleted, filesDeleted, filesKept>>)]_vars

\* C14 witness: an undo after decides that made all three totals positive, two
\* flushes among them
C14_Witness ==
  /\ lastOp.op = "undo" /\ lastOp.res = "popped"
  /\ filesDeleted >= 2 /\ bytesDeleted >= 2 /\ filesKept >= 1

\* the paths an exported progress file lists
ExportedPaths(file) == Range(file.processedPaths)

\* C15: an exported snapshot's processedPaths is exactly the union of ignoredPaths
\* and the paths of the queue items strictly before the cursor; the current item
\* and the later items are never in it, also after undo moved the cursor back.
C15_ExportBeforeCursor ==
  [][handleSaveProgress =>
       /\ exported'.kind = "snapshot"
       /\ ExportedPaths(exported') = ignoredPaths \cup {fileQueue[i] : i \in 1..currentIndex}
       /\ \A i \in (currentIndex + 1)..Len(fileQueue) : fileQueue[i] \notin ExportedPaths(exported')
       /\ exported'.processedCount = Len(exported'.processedPaths)
       /\ exported'.folderName = sourceName]_vars

\* C15 witness: a snapshot exported in a resumed session after undo moved the
\* cursor back, with items before and after the cursor
C15_Witness ==
  /\ appState = "REVIEW" /\ exported = exportSnapshot
  /\ lastOp.op = "undo" /\ lastOp.res = "popped"
  /\ ignoredPaths # {} /\ currentIndex >= 1 /\ currentIndex + 1 < Len(fileQueue)

\* the queue a resumed session gets when the given progress file is loaded and the
\* same folder, as it is now, is scanned again
ResumedQueue(file) ==
  LET folder == (Range(fileQueue) \cup (ignoredPaths \cap Files)) \cap storage
  IN  SortBySizeDesc(FilterIgnored(SeqOfSet(folder), loadResult(file).ignoredPaths), size)

\* C16 (as stated): importing an exported snapshot yields an ignoredPaths set equal
\* to the exported processedPaths, and a resumed scan of the same tree presents
\* exactly the items that were at or after the cursor at export time.
C16_AsStated ==
  [][handleSaveProgress =>
       /\ loadResult(exported').ok
       /\ loadResult(exported').ignoredPaths = ExportedPaths(exported')
       /\ ResumedQueue(exported') = SubSeq(fileQueue, currentIndex + 1, Len(fileQueue))]_vars

\* a payload that carries a well-formed array of path strings
WellFormedPaths(payload) ==
  /\ payload.kind = "snapshot"
  /\ \A i \in DOMAIN payload.processedPaths : payload.processedPaths[i] # NonString

\* C17 (as stated): importing fails for every payload that lacks a well-formed
\* array of path strings: processedPaths missing, not an array, or an array with
\* a non-string element.
C17_AsStated ==
  [][(appState = "IDLE" /\ lastOp'.op = "load")
       => \A payload \in Payloads :
             (payload.kind # "noFile" /\ ~WellFormedPaths(payload)
              /\ handleLoadProgress(payload))
               => errorMsg' = "loadFailed" /\ ~resumeMode' /\ ignoredPaths' = ignoredPaths]_vars

\* C18: when importing fails as malformed the failure is reported and ignoredPaths,
\* the resume flag, the recorded folder name, the queue and the cursor keep their
\* values.
C18_ImportFailureKeepsState ==
  [][(appState = "IDLE" /\ lastOp'.op = "load")
       => \A payload \in Payloads :
             (payload.kind \in {"notJson", "noField", "notArray"}
              /\ handleLoadProgress(payload))
               => /\ errorMsg' = "loadFailed"
                  /\ UNCHANGED <<ignoredPaths, resumeMode, resumeFolderName>>
                  /\ UNCHANGED <<appState, fileQueue, currentIndex, sourceName>>]_vars

\* C18 witness: a malformed progress file has just been rejected
C18_Witness ==
  /\ lastOp.op = "load" /\ lastOp.res = "rejected"
  /\ errorMsg = "loadFailed" /\ appState = "IDLE"
  /\ ~resumeMode /\ ignoredPaths = {} /\ resumeFolderName = NoName

\* C19: a mismatch between the recorded folder name and the picked folder (the
\* browser has a folder picker) is advisory: the import itself never looks at
\* the name; when the user confirms, the scan proceeds and is filtered by
\* ignoredPaths; when the user declines, no scan runs and ignoredPaths stay as
\* imported.
C19_MismatchAdvisory ==
  [][/\ (appState = "IDLE" /\ lastOp'.op = "selectSource" /\ resumeMode /\ pickerSupported
         /\ resumeFolderName # NoName /\ resumeFolderName # DefaultFolder)
        => \A confirmed \in BOOLEAN, granted \in BOOLEAN, found \in SUBSET storage :
             handleSelectSource(DefaultFolder, confirmed, granted, found)
             => /\ UNCHANGED <<ignoredPaths, resumeMode, resumeFolderName>>
                /\ (~confirmed
                      => /\ appState' = "IDLE" /\ lastOp'.res = "declined"
                         /\ UNCHANGED <<fileQueue, sourceName, storage>>)
                /\ (confirmed /\ granted /\ found # {}
                      => IF found \subseteq ignoredPaths
                         THEN appState' = "FINISHED" /\ fileQueue' = <<>>
                         ELSE /\ appState' = "REVIEW"
                              /\ Range(fileQueue') = found \ ignoredPaths)
     /\ (appState = "IDLE" /\ lastOp'.op = "load")
        => \A payload \in Payloads :
             (payload.kind = "snapshot" /\ handleLoadProgress(payload))
              => resumeMode' /\ ignoredPaths' = Range(payload.processedPaths)]_vars

\* C19 witness: the user declined the warning; the imported paths are still there
C19_Witness ==
  /\ lastOp.op = "selectSource" /\ lastOp.res = "declined"
  /\ appState = "IDLE" /\ resumeMode /\ ignoredPaths # {}
  /\ resumeFolderName \notin {NoName, DefaultFolder}

\* the lists a scan may return: the files of any set in any order
ScanLists ==
  {l \in UNION {[1..n -> Files] : n \in 0..MaxFiles} :
     \A i, j \in DOMAIN l : i # j => l[i] # l[j]}

\* the position of an entry in a list without repetitions
Pos(l, x) == CHOOSE i \in DOMAIN l : l[i] = x

\* C20: filtering a scanned list against ignoredPaths removes exactly the entries
\* whose path is in the set, keeps the others in their order, and filtering twice
\* equals filtering once; a queue under review holds no ignored path.
C20_FilterExact ==
  /\ lastOp.op = "load"
       => \A files \in ScanLists :
            LET q == FilterIgnored(files, ignoredPaths)
            IN  /\ Range(q) = Range(files) \ ignoredPaths
                /\ Len(q) = Cardinality(Range(q))
                /\ \A i, j \in DOMAIN q : i < j => Pos(files, q[i]) < Pos(files, q[j])
                /\ FilterIgnored(q, ignoredPaths) = q
  /\ appState = "REVIEW" => Range(fileQueue) \cap ignoredPaths = {}

\* C20 witness: a resumed scan whose list lost some entries to the filter and
\* kept others
C20_Witness ==
  /\ appState = "REVIEW" /\ lastOp.op = "selectSource" /\ resumeMode
  /\ ignoredPaths \cap storage # {} /\ Len(fileQueue) >= 2

\* C21: the review queue is the filtered scan result sorted by size descending,
\* entries of equal size in their discovery order; it is a permutation of the
\* filtered list and originalTotalBytes is the sum of its sizes.
C21_SortedQueue ==
  [][(appState = "IDLE" /\ lastOp'.op = "selectSource" /\ appState' = "REVIEW")
       => \A found \in SUBSET storage :
            handleSelectSource(DefaultFolder, TRUE, TRUE, found)
            => LET filtered == FilterIgnored(SeqOfSet(found), ignoredPaths)
                   q == fileQueue'
               IN  /\ Len(q) = Len(filtered)
                   /\ Range(q) = Range(filtered)
                   /\ \A i, j \in DOMAIN q :
                        i < j => \/ size[q[i]] > size[q[j]]
                                 \/ /\ size[q[i]] = size[q[j]]
                                    /\ Pos(filtered, q[i]) < Pos(filtered, q[j])
                   /\ originalTotalBytes' = SumSizes(filtered, size)
                   /\ currentIndex' = 0]_vars

\* C21 witness: a queue built in a resumed session in which the sort moved a
\* heavier file in front of lighter ones and two files of one size kept their order
C21_Witness ==
  /\ appState = "REVIEW" /\ lastOp.op = "selectSource" /\ ignoredPaths # {}
  /\ Len(fileQueue) >= 3 /\ originalTotalBytes > Len(fileQueue)
  /\ \E i, j \in DOMAIN fileQueue : i < j /\ fileQueue[i] > fileQueue[j]
  /\ \E i, j \in DOMAIN fileQueue :
        i < j /\ size[fileQueue[i]] = size[fileQueue[j]] /\ fileQueue[i] < fileQueue[j]

\* C28: when the permission on the source is not granted, or the directory
\* picker does not exist, the error is reported and the session does not start:
\* no scan, no queue, the app stays idle and the source can be selected again.
C28_AccessFailureStaysIdle ==
  [][(appState = "IDLE" /\ lastOp'.op = "selectSource")
       => \A granted \in BOOLEAN, found \in SUBSET storage :
            (handleSelectSource(DefaultFolder, TRUE, granted, found)
             /\ (~granted \/ ~pickerSupported))
            => /\ errorMsg' = IF pickerSupported THEN "accessFailed" ELSE "unsupported"
               /\ appState' = "IDLE"
               /\ fileQueue' = <<>> /\ originalTotalBytes' = 0 /\ currentIndex' = 0
               /\ sourceName' = sourceName
               /\ UNCHANGED <<storage, dest, resumeMode>>]_vars

\* C28 witness: the permission was denied on a folder that holds media
C28_Witness ==
  /\ lastOp.op = "selectSource" /\ lastOp.res = "denied"
  /\ errorMsg = "accessFailed" /\ appState = "IDLE" /\ fileQueue = <<>>
  /\ pickerSupported /\ storage # {}

\* C29 (as stated): selecting the source folder asks for read permission only;
\* readwrite is asked for no earlier than the first delete or copy.
C29_AsStated ==
  [][(appState = "IDLE" /\ lastOp'.op = "selectSource") => sourceMode' # "readwrite"]_vars

\* ---- scanDirectory
\* the entries of the tree, and those whose MIME type starts with image/ or video/
Entries(t) == (Nodes \ {Root}) \cup {PadFile(d, i) : d \in {n \in Nodes : t.kind[n] = "dir"}, i \in 1..t.pad}
MediaFiles(t) == {e \in Entries(t) : KindOf(t, e) \in {"image", "video"}}

\* e lies under directory d (directly or deeper)
RECURSIVE Under(_, _, _)
Under(t, e, d) ==
  IF e = Root THEN FALSE
  ELSE LET p == ParentOf(t, e) IN p = d \/ Under(t, p, d)

Depth(t, e) == Cardinality({d \in Nodes : Under(t, e, d)})
NoDuplicates(l) == Cardinality(Range(l)) = Len(l)
Completed == scan.pc = "done" /\ ~scan.aborted

\* C22: on a tree with no failing entry, an uncancelled recursive scan returns
\* every file under the root whose type starts with image/ or video/, each
\* exactly once, and no file of another type.
C22_RecursiveComplete ==
  (Completed /\ tree.recursive /\ tree.fail = 0)
    => /\ Range(scan.files) = MediaFiles(tree)
       /\ NoDuplicates(scan.files)

C22_Witness ==
  /\ Completed /\ tree.recursive /\ tree.fail = 0
  /\ \E e \in Range(scan.files) : Depth(tree, e) >= 2 /\ KindOf(tree, e) = "image"
  /\ \E e \in Range(scan.files) : KindOf(tree, e) = "video"
  /\ \E e \in Entries(tree) : KindOf(tree, e) = "other"

\* the accepted files of the result under directory d; s is a sibling of d that
\* the enumeration of their parent discovers after d
FilesUnder(t, d) == {e \in Range(scan.files) : Under(t, e, d)}
Dirs(t) == {n \in Nodes : t.kind[n] = "dir"}
DiscoveredAfter(t, s, d) == d > Root /\ s > d /\ t.parent[s] = t.parent[d]

\* C23 (as stated): in the result of a recursive scan every accepted file under
\* a directory D comes before every sibling of D discovered after D, be it an
\* accepted file or the content of a directory.
C23_AsStated ==
  (Completed /\ tree.recursive)
    => \A D \in Dirs(tree), s \in Nodes :
         DiscoveredAfter(tree, s, D)
         => \A x \in FilesUnder(tree, D) :
              /\ s \in Range(scan.files) => Pos(scan.files, x) < Pos(scan.files, s)
              /\ \A y \in FilesUnder(tree, s) : Pos(scan.files, x) < Pos(scan.files, y)

\* C23 (amended): the result is depth-first over directories, files first: the
\* accepted files directly in a directory come in discovery order and before
\* every accepted file under any of its sub-directories, and every accepted file
\* under a directory D comes before every accepted file under a sibling
\* directory discovered after D.
C23_FilesFirstDepthFirst ==
  (Completed /\ tree.recursive)
    => /\ \A D \in Dirs(tree), s \in Dirs(tree) :
            DiscoveredAfter(tree, s, D)
            => \A x \in FilesUnder(tree, D), y \in FilesUnder(tree, s) :
                 Pos(scan.files, x) < Pos(scan.files, y)
       /\ \A P \in Dirs(tree) :
            \A f \in FilesUnder(tree, P) :
              ParentOf(tree, f) = P
              => \A y \in FilesUnder(tree, P) :
                   /\ ParentOf(tree, y) # P => Pos(scan.files, f) < Pos(scan.files, y)
                   /\ (ParentOf(tree, y) = P
                       /\ Pos(Children(tree, P), f) < Pos(Children(tree, P), y))
                      => Pos(scan.files, f) < Pos(scan.files, y)

\* C23 witness: two sibling directories with accepted content, followed in
\* their parent by an accepted file
C23_Witness ==
  /\ Completed /\ tree.recursive
  /\ \E D \in Dirs(tree), s \in Dirs(tree) :
       /\ DiscoveredAfter(tree, s, D)
       /\ FilesUnder(tree, D) # {} /\ FilesUnder(tree, s) # {}
       /\ \E f \in Range(scan.files) : DiscoveredAfter(tree, f, s)

\* C24: a non-recursive scan returns only image/video files that are direct
\* children of the root (all of them when it completes with no failing entry),
\* and at no point holds, opens or queues a sub-directory.
C24_NonRecursiveRootOnly ==
  ~tree.recursive
    => /\ \A e \in Range(scan.files) : ParentOf(tree, e) = Root /\ e \in MediaFiles(tree)
       /\ Range(scan.stack) \subseteq {Root}
       /\ scan.dir \in {0, Root}
       /\ scan.subDirs = <<>>
       /\ (Completed /\ tree.fail = 0)
            => Range(scan.files) = {e \in MediaFiles(tree) : ParentOf(tree, e) = Root}

\* C24 witness: a completed non-recursive scan of a root that holds media files
\* and a sub-directory with media files of its own
C24_Witness ==
  /\ ~tree.recursive /\ Completed
  /\ \E e \in Range(scan.files) : e > 0
  /\ \E D \in Dirs(tree) \ {Root} :
       \E e \in MediaFiles(tree) : Under(tree, e, D) /\ e \notin Range(scan.files)

\* the result of the scan of directory d when nothing cancels it: the accepted
\* files of d in discovery order, then the results of its sub-directories in
\* discovery order
RECURSIVE FullResult(_, _)
RECURSIVE FullResults(_, _)
FullResult(t, d) ==
  LET accepted(e) == KindOf(t, e) \in {"image", "video"} /\ t.fail # e
      isDir(e) == KindOf(t, e) = "dir"
  IN  IF t.fail = d THEN <<>>
      ELSE SelectSeq(Children(t, d), accepted)
           \o (IF t.recursive THEN FullResults(t, SelectSeq(Children(t, d), isDir)) ELSE <<>>)
FullResults(t, ds) ==
  IF ds = <<>> THEN <<>> ELSE FullResult(t, Head(ds)) \o FullResults(t, Tail(ds))

IsPrefix(s, l) == Len(s) <= Len(l) /\ s = SubSeq(l, 1, Len(s))

\* C25: a scan never rejects; completed without cancellation it returns the full
\* result of its tree, and cancelled at any point it returns a prefix of that
\* full result (the list is such a prefix all along).
C25_CancelReturnsPrefix ==
  /\ scan.pc # "threw"
  /\ IsPrefix(scan.files, FullResult(tree, Root))
  /\ Completed => scan.files = FullResult(tree, Root)

\* C25 witness: a cancelled scan returned some, but not all, of the full result
C25_Witness ==
  /\ scan.pc = "done" /\ scan.aborted
  /\ scan.files # <<>>
  /\ Len(scan.files) < Len(FullResult(tree, Root))
  /\ tree.recursive /\ \E e \in Range(scan.files) : ParentOf(tree, e) # Root

\* the running counts reported for a list of n accepted files
Periodic(n) == [i \in 1..(n \div ProgressEvery) |-> i * ProgressEvery]

\* C26: while the scan runs onProgress has been called with the running count at
\* every fifth accepted file and not otherwise; once the stack is exhausted or
\* the cancellation observed it is called exactly once more, with the length of
\* the returned list; the reported counts never decrease.
C26_ProgressReports ==
  /\ scan.pc \in {"loop", "enum"} => scan.progress = Periodic(Len(scan.files))
  /\ scan.pc = "done" => scan.progress = Append(Periodic(Len(scan.files)), Len(scan.files))
  /\ \A i, j \in DOMAIN scan.progress : i < j => scan.progress[i] <= scan.progress[j]

\* C26 witness: a cancelled scan that reported a running count and then, once,
\* a larger final count
C26_Witness ==
  /\ scan.pc = "done"
  /\ Len(scan.progress) = 2
  /\ scan.progress[1] = ProgressEvery /\ scan.progress[2] > ProgressEvery
  /\ scan.aborted

\* the entries an entry that fails to open takes away: itself and, for a
\* directory, what lies under it
LostTo(t, e) == t.fail # 0 /\ (e = t.fail \/ Under(t, e, t.fail))

\* C27: with one entry that fails to open, file or directory, the scan does not
\* reject and, when not cancelled, completes with every accepted file that is
\* neither the failing file nor under the failing directory, each once.
C27_FailureSkipsEntry ==
  /\ tree.fail # 0 => scan.pc # "threw"
  /\ (Completed /\ tree.fail # 0 /\ tree.recursive)
       => /\ Range(scan.files) = {e \in MediaFiles(tree) : ~LostTo(tree, e)}
          /\ NoDuplicates(scan.files)

\* C27 witness: a sub-directory with media files failed to open; a file accepted
\* before it and the files of a directory discovered after it are returned
C27_Witness ==
  /\ Completed /\ tree.recursive
  /\ tree.fail \in Dirs(tree) \ {Root}
  /\ \E e \in MediaFiles(tree) : Under(tree, e, tree.fail)
  /\ \E e \in Range(scan.files) : ParentOf(tree, e) = tree.parent[tree.fail]
  /\ \E s \in Dirs(tree) : DiscoveredAfter(tree, s, tree.fail) /\ FilesUnder(tree, s) # {}

\* C30 (as stated): no second decide runs against the cursor and pending item of
\* a decide that is still suspended at the file system; no item is decided twice
\* (without an undo in between) and in review the cursor is never past the end
\* of a queue whose items did not all receive a decision.
C30_AsStated ==
  /\ \A i, j \in DOMAIN calls :
       i < j => ~(calls[i].index = calls[j].index /\ calls[i].pending = calls[j].pending)
  /\ NoDuplicates(historyStack)
  /\ (appState = "REVIEW" /\ fileQueue # <<>>) => currentIndex < Len(fileQueue)

\* C31 (as stated): in every reachable state where pendingDelete is non-empty
\* the mode is single-folder, the pending item is the queue item at cursor-1 and
\* the top of the history stack is cursor-1.
C31_AsStated ==
  pendingDelete # None
    => /\ ~destHandle
       /\ currentIndex >= 1 /\ pendingDelete = fileQueue[currentIndex]
       /\ historyStack # <<>> /\ historyStack[Len(historyStack)] = currentIndex - 1

\* the copy of the current item under each answer of the environment
CopyOf(copyIn) == copyFileToDirectory(currentFile, storage, dest, copyIn)

\* C32: in destination mode decide(KEEP) copies by the stream when it works and
\* then does not attempt the whole-buffer write; when the stream is unsupported
\* or fails the whole-buffer write is attempted and the copy succeeds exactly
\* when it does; filesKept grows by one exactly for a KEEP whose copy succeeded,
\* and decide(DELETE) leaves it alone.
C32_StreamThenBuffer ==
  [][(destHandle /\ DecideRecorded)
       => /\ lastOp'.action = KEEP
               => /\ \A copyIn \in CopyInputs :
                       LET opened == copyIn # "openFail" /\ currentFile \in storage
                           streamed == opened /\ copyIn = "streamOk"
                           fellBack == opened /\ copyIn # "streamOk"
                       IN  /\ CopyOf(copyIn).buffered = fellBack
                           /\ (CopyOf(copyIn).res = "ok")
                                = (streamed \/ (fellBack /\ copyIn \in {"unsupportedBufOk",
                                                                          "streamFailBufOk"}))
                  /\ \E copyIn \in CopyInputs :
                       lastOp'.res = CopyOf(copyIn).res /\ dest' = CopyOf(copyIn).dest
                  /\ lastOp'.res = "ok" => dest'[currentFile] = "full"
                  /\ filesKept' = filesKept + (IF lastOp'.res = "ok" THEN 1 ELSE 0)
          /\ lastOp'.action = DELETE => filesKept' = filesKept /\ dest' = dest]_vars

\* C32 witness: the second item was copied to the destination and counted as
\* kept, after the first
C32_Witness ==
  /\ destHandle /\ lastOp.op = "decide" /\ lastOp.action = KEEP /\ lastOp.res = "ok"
  /\ filesKept = 2 /\ currentIndex = 2
  /\ \E f \in Files : pre.file = f /\ dest[f] = "full" /\ pre.cursor = 1

\* the queue files removed from storage since the session started
Removed == Files \ storage

\* C33 (as stated): in single-folder mode filesDeleted is the number of files
\* actually removed from storage and bytesDeleted the sum of their sizes, also
\* when a removal fails or the handle has no remove().
C33_AsStated ==
  ~destHandle
    => /\ filesDeleted = Cardinality(Removed)
       /\ bytesDeleted = SumSizes(SeqOfSet(Removed), size)

\* C34 (as stated): with no storage failure, filesKept + filesDeleted never
\* exceeds the queue length, and equals it once the queue is finished.
C34_AsStated ==
  /\ filesKept + filesDeleted <= Len(fileQueue)
  /\ appState = "FINISHED" => filesKept + filesDeleted = Len(fileQueue)

\* C35 (as stated): in single-folder mode the item at the cursor of a queue in
\* review is still present in storage.
C35_AsStated ==
  (appState = "REVIEW" /\ ~destHandle) => currentFile \in storage

\* C36 (as stated): while a decide is suspended in the flush of the pending item
\* A, an undo never leads to a state in which A has been removed from storage
\* while the cursor is back on A with pendingDelete cleared.
C36_AsStated ==
  \A i \in DOMAIN calls :
    (calls[i].pending # None /\ calls[i].pending \notin storage)
      => ~(currentFile = calls[i].pending /\ pendingDelete = None)

\* C37 (as stated): in single-folder mode an exported snapshot never lists the
\* path of a file marked DELETE that is still in storage, awaiting its deferred
\* deletion.
C37_AsStated ==
  [][(handleSaveProgress /\ ~destHandle /\ pendingDelete # None /\ pendingDelete \in storage)
       => pendingDelete \notin ExportedPaths(exported')]_vars

\* C38: whenever the review is entered the queue is non-empty, the cursor 0, the
\* history and pendingDelete empty and the three totals 0; a scan that finds
\* nothing returns to idle, and one whose files are all in ignoredPaths goes to
\* finished with an empty queue and no decide.
C38_FreshReview ==
  [][/\ (appState # "REVIEW" /\ appState' = "REVIEW")
        => /\ fileQueue' # <<>> /\ currentIndex' = 0
           /\ historyStack' = <<>> /\ pendingDelete' = None
           /\ bytesDeleted' = 0 /\ filesDeleted' = 0 /\ filesKept' = 0
     /\ (appState = "IDLE" /\ lastOp'.op = "selectSource" /\ pickerSupported)
        => \A found \in SUBSET storage :
             handleSelectSource(DefaultFolder, TRUE, TRUE, found)
             => /\ found = {} => appState' = "IDLE" /\ errorMsg' = "noMedia"
                /\ (found # {} /\ found \subseteq ignoredPaths)
                     => /\ appState' = "FINISHED" /\ fileQueue' = <<>>
                        /\ filesKept' = 0 /\ filesDeleted' = 0 /\ decideRun' = 0
                /\ ~(found \subseteq ignoredPaths) => appState' = "REVIEW"]_vars

\* C38 witness: a resumed session entered the review with part of the scanned
\* files filtered out
C38_Witness ==
  /\ appState = "REVIEW" /\ lastOp.op = "selectSource" /\ lastOp.res = "review"
  /\ resumeMode /\ ignoredPaths \cap storage # {}
  /\ fileQueue # <<>> /\ currentIndex = 0 /\ filesKept = 0

\* C39: a scanDirectory call that was made ends by returning, on every tree,
\* cancelled or not and whatever entry fails; no directory is pushed on the stack
\* twice or popped from it twice, only pushed directories are popped, and the
\* call that returned made its last progress report with the length of the list
\* it returns.
C39_ScanTerminates ==
  /\ (scan.pc # "idle") ~> (scan.pc = "done")
  /\ [](/\ NoDuplicates(scan.pushed) /\ NoDuplicates(scan.visited)
        /\ Range(scan.visited) \subseteq Range(scan.pushed)
        /\ Range(scan.pushed) \subseteq Dirs(tree)
        /\ scan.pc # "threw"
        /\ scan.pc = "done"
             => /\ scan.progress # <<>>
                /\ scan.progress[Len(scan.progress)] = Len(scan.files))

\* C39 witness: a scan returned after a cancellation on a tree with a failing
\* entry, having visited at least two directories
C39_Witness ==
  /\ scan.pc = "done" /\ scan.aborted
  /\ tree.fail # 0
  /\ Len(scan.visited) >= 2
  /\ scan.progress[Len(scan.progress)] = Len(scan.files)
====
